---------------------------- MODULE Spec2Model ----------------------------
(***************************************************************************)
(* Model of perplexity_automation.py: one run of main() -- weekday gate,   *)
(* credential validation, the Perplexity request with its retry loop, the  *)
(* image downloads, the Telegram send and the cleanup of scratch files.    *)
(*                                                                         *)
(* Time is counted in ticks, TicksPerSecond ticks to the second, so that   *)
(* random.uniform(0, 1) has more than one value.  A text is represented by *)
(* its length; an image URL and the scratch file downloaded from it by the *)
(* URL's number.                                                           *)
(***************************************************************************)
EXTENDS Integers, Sequences, FiniteSets, TLC

(* ------------------------------ bounds -------------------------------- *)

\* resolution of the clock: ticks in one second
TicksPerSecond == 2

\* largest max_retries argument of generate_with_retry that is explored
MaxRetriesBound == 4

\* largest number of image URLs in one location of a response
MaxImages == 4

\* when the parsing is explored on its own: the longest image list of one
\* location and the number of distinct URLs
MaxListLen == 2
MaxUrl == 2

\* when the formatting is explored on its own: the longest content, and the
\* largest number of characters left for the body by the budget
MaxTextLen == 5
MaxAvailable == 3

(* ------------------------- program constants -------------------------- *)

\* generate_with_retry(self, payload, max_retries: int = 3)
DefaultMaxRetries == 3

\* for i, url in enumerate(image_urls[:3], 1)
ImageLimitFour == 3 + 1

ImageLimit == 3

\* available_chars = 1500 - header_no_spaces - hashtags_no_spaces
CharBudget == 1500

\* len("\n\n#CryptoNews #MarketOverview") and the same without its space
HashtagsLen == 29
HashtagsNoSpaces == 28

\* datetime.now(): the day of the week (Monday = 0) and the length of the
\* month's name, "May" to "September"
Days == 0..6
MonthLens == {3, 9}

\* header = "<chart> CRYPTO MARKET UPDATE - " + strftime('%B %d, %Y') + "\n\n"
HeaderLen(now) == 25 + (now.month_len + 9) + 2
HeaderNoSpaces(now) == 20 + (now.month_len + 7) + 2

(* ----------------------- the Perplexity endpoint ---------------------- *)

\* What one requests.post can come to: a 2xx answer with a well-formed body,
\* a 2xx answer that lacks choices[0].message.content or does not decode,
\* an HTTP error status, a timeout, or another network failure.
Outcomes == {"ok", "malformed", "http401", "http429", "http5xx", "http4xx",
             "timeout", "neterr"}

\* Cleaned contents as [nonspace, spaces]: how many characters other than
\* the space and how many spaces the text has once its lines are joined and
\* the markdown markers are removed.  All of them fit the character budget.
Contents == { [nonspace |-> 34,   spaces |-> 5],
              [nonspace |-> 1200, spaces |-> 240],
              [nonspace |-> 1400, spaces |-> 7500] }

Prefix(n) == [i \in 1..n |-> i]

\* An item of an image list, with the URL by number: a bare URL string
\* ("str"), or an object that has the URL under the key "url" or under the
\* key "imageUrl".
BareUrls(urls) == [i \in DOMAIN urls |-> [key |-> "str", url |-> urls[i]]]

\* Well-formed bodies: the content, the top-level image list result['images'],
\* the image list of the first choice and the image list under
\* provider_metadata.perplexity.
Bodies == { [content |-> c, images |-> BareUrls(Prefix(n)),
             choice_images |-> << >>, provider_images |-> p] :
              c \in Contents, n \in 0..MaxImages,
              p \in {<< >>, << [key |-> "imageUrl", url |-> 1] >>} }

NoBody == [content |-> [nonspace |-> 0, spaces |-> 0],
           images |-> << >>, choice_images |-> << >>,
           provider_images |-> << >>]

VARIABLES
    pc,                 \* where main() stands
    exit_code,          \* the process's exit status, -1 while it runs
    now,                \* datetime.now(): [weekday, month_len]
    env,                \* which of the three secrets are non-empty after strip()
    max_retries,        \* generate_with_retry's argument
    retries,            \* generate_with_retry's counter
    requests,           \* the requests posted so far: [status, body]
    sleeps,             \* the time.sleep calls of the retry loop, in ticks
    raised,             \* the exception generate_with_retry raised, or "none"
    crypto_summary,     \* length of the formatted message, 0 before it exists
    image_urls,         \* the image URLs parsed from the response
    next_url,           \* position of the download loop in image_urls[:3]
    downloaded_images,  \* paths of the completed downloads
    temp_files,         \* the paths main() will clean up
    scratch,            \* the scratch files that exist on disk
    created,            \* every scratch file download_image has created
    sent,               \* the Telegram calls made: [method, photo, from, length]
    success,            \* main()'s success flag
    downloads,          \* the download_image calls made: [url, outcome]
    result,             \* _make_request's decoded body, when parsed on its own
    raw_content,        \* format_crypto_summary's argument, as characters
    char_budget,        \* the budget that format_crypto_summary works to
    formatted_text      \* format_crypto_summary's body, as characters

\* the variables of the functions that are explored on their own
pure_vars == << result, raw_content, char_budget, formatted_text >>

vars == << pc, exit_code, now, env, max_retries, retries, requests, sleeps,
           raised, crypto_summary, image_urls, next_url, downloaded_images,
           temp_files, scratch, created, sent, success, downloads, pure_vars >>


(* ------------------------ _make_request (176-248) --------------------- *)

\* Exception texts, as the code builds them.
InvalidKeyText    == "Invalid API key. Please check your Perplexity API key."
RateLimitText     == "Rate limit exceeded. Please try again later."
ServerErrorText   == "Server error: <HTTPError>"
HttpErrorText     == "HTTP error <status>: <response.text>"
TimeoutText       == "Request timeout. Please try again."
RequestFailedText == "Request failed: <RequestException>"
InvalidFormatText == "Invalid response format: <KeyError or JSONDecodeError>"
MaxRetriesText    == "Max retries (<max_retries>) exceeded"
\* str() of the HTTPError that raise_for_status builds for a 429
HTTPError429Text  == "429 Client Error: Too Many Requests for url: <url>"

\* "rate_limit" in error_msg or "429" in error_msg, with error_msg the
\* lower-cased text.  RateLimitText has "rate limit", with a space, and no
\* "429"; of the texts above only the HTTPError's own text has one of the two.
MentionsRateLimit(text) == text = HTTPError429Text

\* The URLs of the items of a list that have one of the keys, in order.
UrlsUnder(items, keys) ==
    LET Has(item) == item.key \in keys
        kept == SelectSeq(items, Has)
    IN  [i \in DOMAIN kept |-> kept[i].url]

\* Images are collected from the top-level list (a string, or an object with
\* 'url'), then from the list under provider_metadata.perplexity (an object
\* with 'imageUrl' or with 'url'), each appended in order as it comes.  No
\* other place of the body is read.
ExtractImages(body) ==
    UrlsUnder(body.images, {"str", "url"})
        \o UrlsUnder(body.provider_images, {"imageUrl", "url"})

\* The except clauses of _make_request turn every requests exception and
\* every KeyError / JSONDecodeError into a plain Exception; what they do not
\* catch (an IndexError for an empty choices list) is no RequestException
\* either and takes the same path through generate_with_retry.
ExceptionText(status) ==
    CASE status = "http401"   -> InvalidKeyText
      [] status = "http429"   -> RateLimitText
      [] status = "http5xx"   -> ServerErrorText
      [] status = "http4xx"   -> HttpErrorText
      [] status = "timeout"   -> TimeoutText
      [] status = "neterr"    -> RequestFailedText
      [] status = "malformed" -> InvalidFormatText

\* A body that is returned, or an exception [cls, text] that is raised.
make_request_reraise(status, body) ==
    IF status = "ok"
    THEN [raised |-> FALSE, content |-> body.content,
          images |-> ExtractImages(body), cls |-> "none", text |-> "none"]
    ELSE IF status = "http429"
    THEN [raised |-> TRUE, content |-> NoBody.content, images |-> << >>,
          cls |-> "RequestException", text |-> HTTPError429Text]
    ELSE [raised |-> TRUE, content |-> NoBody.content, images |-> << >>,
          cls |-> "Exception", text |-> ExceptionText(status)]

make_request(status, body) ==
    IF status = "ok"
    THEN [raised |-> FALSE, content |-> body.content,
          images |-> ExtractImages(body), cls |-> "none", text |-> "none"]
    ELSE [raised |-> TRUE, content |-> NoBody.content, images |-> << >>,
          cls |-> "Exception", text |-> ExceptionText(status)]

(* --------------------- generate_with_retry (140-174) ------------------ *)

\* The two except clauses of the loop body and the loop test that follows:
\* the new counter, the sleep made (0 for none) and the exception that
\* leaves generate_with_retry ("none" while the loop goes on).
OnExceptionOffByOne(exc, r, max, jitter) ==
    IF r < max - 2
    THEN [retries |-> r + 1, sleep |-> TicksPerSecond, raise |-> "none"]
    ELSE [retries |-> r, sleep |-> 0, raise |-> exc.text]

OnExceptionAlwaysRetry(exc, r, max, jitter) ==
    [retries |-> r + 1, sleep |-> TicksPerSecond,
     raise |-> IF r + 1 < max THEN "none" ELSE MaxRetriesText]

OnException(exc, r, max, jitter) ==
    IF exc.cls = "RequestException"
    THEN IF MentionsRateLimit(exc.text)
         THEN [retries |-> r + 1,
               sleep   |-> (2 ^ r) * TicksPerSecond + jitter,
               raise   |-> IF r + 1 < max THEN "none" ELSE MaxRetriesText]
         ELSE IF r < max - 1
         THEN [retries |-> r + 1, sleep |-> TicksPerSecond, raise |-> "none"]
         ELSE [retries |-> r, sleep |-> 0, raise |-> exc.text]
    ELSE IF r < max - 1
    THEN [retries |-> r + 1, sleep |-> TicksPerSecond, raise |-> "none"]
    ELSE [retries |-> r, sleep |-> 0, raise |-> exc.text]

(* --------------------- format_crypto_summary (250-302) ---------------- *)

\* available_chars, and the length of header + formatted_text + hashtags for
\* a content with content.nonspace <= AvailableChars(t): the test of line 275
\* fails and formatted_text is the cleaned text as it is.  Spaces are not
\* counted against the budget, so the message can have any length.
AvailableChars(t) == CharBudget - HeaderNoSpaces(t) - HashtagsNoSpaces

format_crypto_summary(content, t) ==
    HeaderLen(t) + content.nonspace + content.spaces + HashtagsLen


(* ------------------------------ the run ------------------------------- *)

Min(a, b) == IF a < b THEN a ELSE b

Range(f) == { f[i] : i \in DOMAIN f }

Env == [PERPLEXITY_API_KEY : BOOLEAN, TELEGRAM_BOT_TOKEN : BOOLEAN,
        TELEGRAM_CHANNEL_ID : BOOLEAN]

\* is_weekday(): datetime.now().weekday() < 5
IsWeekdayThroughSaturday(t) == t.weekday < 6

IsWeekday(t) == t.weekday < 5

\* Lines 431-439: no error is appended.
EnvironmentValidNoChannel(e) == e.PERPLEXITY_API_KEY /\ e.TELEGRAM_BOT_TOKEN

EnvironmentValid(e) ==
    e.PERPLEXITY_API_KEY /\ e.TELEGRAM_BOT_TOKEN /\ e.TELEGRAM_CHANNEL_ID

\* Where main() goes after line 456: to the except clause of line 488 and
\* the finally clause when get_crypto_news_with_images raised, else to the
\* download loop, which line 460 skips for an empty list.
AfterFetchNoFinally(failed, images) ==
    IF failed THEN "done"
    ELSE IF images # << >> THEN "download" ELSE "publish"

AfterFetchPostsAnyway(failed, images) ==
    IF failed THEN "publish"
    ELSE IF images # << >> THEN "download" ELSE "publish"

AfterFetch(failed, images) ==
    IF failed THEN "finally"
    ELSE IF images # << >> THEN "download" ELSE "publish"

\* The exit status: 1 by the sys.exit of line 490 or of line 486, else 0.
ExitStatusNoExitOnPostFailure(exc, posted) == IF exc = "none" THEN 0 ELSE 1

ExitStatus(exc, posted) == IF exc = "none" /\ posted THEN 0 ELSE 1

\* The functions explored on their own are at rest during a run.
AtRest ==
    /\ result = NoBody
    /\ raw_content = << >>
    /\ char_budget = CharBudget
    /\ formatted_text = << >>

\* The state before main() has done anything.
Fresh ==
    /\ exit_code = -1
    /\ retries = 0
    /\ requests = << >>
    /\ sleeps = << >>
    /\ raised = "none"
    /\ crypto_summary = 0
    /\ image_urls = << >>
    /\ next_url = 1
    /\ downloaded_images = << >>
    /\ temp_files = << >>
    /\ scratch = {}
    /\ created = {}
    /\ sent = << >>
    /\ success = FALSE
    /\ downloads = << >>

Init ==
    /\ pc = "is_weekday"
    /\ now \in [weekday : Days, month_len : MonthLens]
    /\ env \in Env
    /\ max_retries = DefaultMaxRetries
    /\ Fresh
    /\ AtRest

\* is_weekday (411-413) and the return of lines 421-423.
is_weekday ==
    /\ pc = "is_weekday"
    /\ IF IsWeekday(now)
       THEN pc' = "validate" /\ exit_code' = exit_code
       ELSE pc' = "done" /\ exit_code' = 0
    /\ UNCHANGED << now, env, max_retries, retries, requests, sleeps, raised,
                    crypto_summary, image_urls, next_url, downloaded_images,
                    temp_files, scratch, created, sent, success,
                    downloads, pure_vars >>

\* Lines 425-445: the three secrets are read and checked; sys.exit(1) when
\* one of them is empty.
validate ==
    /\ pc = "validate"
    /\ IF EnvironmentValid(env)
       THEN pc' = "fetch" /\ exit_code' = exit_code
       ELSE pc' = "done" /\ exit_code' = 1
    /\ UNCHANGED << now, env, max_retries, retries, requests, sleeps, raised,
                    crypto_summary, image_urls, next_url, downloaded_images,
                    temp_files, scratch, created, sent, success,
                    downloads, pure_vars >>

\* One turn of the loop of generate_with_retry, called by generate_crypto_news
\* for get_crypto_news_with_images (line 456): a request, and then the return
\* of the formatted content and the images, or the except clause and the
\* loop test.  An exception that leaves generate_with_retry is logged and
\* raised again by get_crypto_news_with_images and caught at line 488.
generate_with_retry ==
    /\ pc = "fetch"
    /\ retries < max_retries
    /\ \E status \in Outcomes, jitter \in 0..TicksPerSecond :
         \E body \in (IF status = "ok" THEN Bodies ELSE {NoBody}) :
           LET response == make_request(status, body)
               h == OnException(response, retries, max_retries, jitter)
           IN  /\ requests' = Append(requests, [status |-> status, body |-> body])
               /\ IF ~response.raised
                  THEN /\ crypto_summary' =
                             format_crypto_summary(response.content, now)
                       /\ image_urls' = response.images
                       /\ pc' = AfterFetch(FALSE, response.images)
                       /\ UNCHANGED << retries, sleeps, raised >>
                  ELSE /\ retries' = h.retries
                       /\ sleeps' = IF h.sleep > 0
                                    THEN Append(sleeps, h.sleep) ELSE sleeps
                       /\ raised' = h.raise
                       /\ pc' = IF h.raise = "none" THEN "fetch"
                                ELSE AfterFetch(TRUE, << >>)
                       /\ UNCHANGED << crypto_summary, image_urls >>
    /\ UNCHANGED << exit_code, now, env, max_retries, next_url,
                    downloaded_images, temp_files, scratch, created, sent,
                    success, downloads, pure_vars >>

\* download_image (312-352) for image_urls[next_url], and lines 465-467.
\* The request can fail before the scratch file is created ("failed"), the
\* stream can fail after NamedTemporaryFile(delete=False) has created it
\* ("partial"), or the download completes; the first two return None.
download_image ==
    /\ pc = "download"
    /\ next_url <= Min(Len(image_urls), ImageLimit)
    /\ \E outcome \in {"failed", "partial", "complete"} :
         /\ IF outcome = "failed"
            THEN UNCHANGED << scratch, created >>
            ELSE /\ scratch' = scratch \cup {next_url}
                 /\ created' = created \cup {next_url}
         /\ IF outcome = "complete"
            THEN /\ downloaded_images' = Append(downloaded_images, next_url)
                 /\ temp_files' = Append(temp_files, next_url)
            ELSE UNCHANGED << downloaded_images, temp_files >>
         /\ downloads' = Append(downloads, [url |-> image_urls[next_url],
                                              outcome |-> outcome])
    /\ next_url' = next_url + 1
    /\ pc' = IF next_url + 1 <= Min(Len(image_urls), ImageLimit)
             THEN "download" ELSE "publish"
    /\ UNCHANGED << exit_code, now, env, max_retries, retries, requests,
                    sleeps, raised, crypto_summary, image_urls, sent, success,
                    pure_vars >>

\* Line 472: which of the two sends main() makes.
SendsPhotoExactlyOne(images) == Len(images) = 1

SendsPhotoMoreThanOne(images) == Len(images) > 1

SendsPhoto(images) == Len(images) >= 1

\* Line 474: the image that goes out, downloaded_images[0].
PhotoToSendLast(images) == images[Len(images)]

PhotoToSend(images) == images[1]

\* A call carries the characters from .. from + length - 1 of the formatted
\* message; both sends are handed crypto_summary as it is.
WholeMessage(method, photo, text) ==
    [method |-> method, photo |-> photo, from |-> 1, length |-> text]

\* send_photo_with_caption (354-376) with the first downloaded image, and
\* lines 480-486.
send_photo_with_caption ==
    /\ pc = "publish"
    /\ SendsPhoto(downloaded_images)
    /\ sent' = Append(sent, WholeMessage("sendPhoto",
                                          PhotoToSend(downloaded_images),
                                          crypto_summary))
    /\ \E ok \in BOOLEAN : success' = ok
    /\ pc' = "finally"
    /\ UNCHANGED << exit_code, now, env, max_retries, retries, requests,
                    sleeps, raised, crypto_summary, image_urls, next_url,
                    downloaded_images, temp_files, scratch, created,
                    downloads, pure_vars >>

\* send_message (378-399), and lines 480-486.
send_message ==
    /\ pc = "publish"
    /\ ~SendsPhoto(downloaded_images)
    /\ sent' = Append(sent, WholeMessage("sendMessage", 0, crypto_summary))
    /\ \E ok \in BOOLEAN : success' = ok
    /\ pc' = "finally"
    /\ UNCHANGED << exit_code, now, env, max_retries, retries, requests,
                    sleeps, raised, crypto_summary, image_urls, next_url,
                    downloaded_images, temp_files, scratch, created,
                    downloads, pure_vars >>

\* The finally clause: cleanup_temp_files (401-409) removes the files of
\* temp_files, and the process ends with 0, or with the 1 of the sys.exit
\* of line 486 or 490.
cleanup_temp_files ==
    /\ pc = "finally"
    /\ scratch' = scratch \ Range(temp_files)
    /\ exit_code' = ExitStatus(raised, success)
    /\ pc' = "done"
    /\ UNCHANGED << now, env, max_retries, retries, requests, sleeps, raised,
                    crypto_summary, image_urls, next_url, downloaded_images,
                    temp_files, created, sent, success, downloads,
                    pure_vars >>

Next ==
    \/ is_weekday
    \/ validate
    \/ generate_with_retry
    \/ download_image
    \/ send_photo_with_caption
    \/ send_message
    \/ cleanup_temp_files

Spec == Init /\ [][Next]_vars

\* generate_with_retry on its own, for every max_retries from 1 up.
InitRetry ==
    /\ pc = "fetch"
    /\ now \in [weekday : {0}, month_len : MonthLens]
    /\ env = [PERPLEXITY_API_KEY |-> TRUE, TELEGRAM_BOT_TOKEN |-> TRUE,
              TELEGRAM_CHANNEL_ID |-> TRUE]
    /\ max_retries \in 1..MaxRetriesBound
    /\ Fresh
    /\ AtRest

NextRetry == generate_with_retry

SpecRetry == InitRetry /\ [][NextRetry]_vars


(* ------------------- the parsing of a body on its own ----------------- *)

\* Image lists of at most MaxListLen items whose keys are among keys.
ItemLists(keys) ==
    UNION { [1..n -> [key : keys, url : 1..MaxUrl]] : n \in 0..MaxListLen }

\* Well-formed bodies with images in any of the three places: strings or
\* objects with 'url' at the top level and in the first choice, objects with
\* 'imageUrl' or 'url' in the provider metadata.
ParseBodies ==
    [content : {[nonspace |-> 34, spaces |-> 5]},
     images : ItemLists({"str", "url"}),
     choice_images : ItemLists({"str", "url"}),
     provider_images : ItemLists({"imageUrl", "url"})]

InitParse ==
    /\ pc = "parse"
    /\ now \in [weekday : {0}, month_len : {3}]
    /\ env = [PERPLEXITY_API_KEY |-> TRUE, TELEGRAM_BOT_TOKEN |-> TRUE,
              TELEGRAM_CHANNEL_ID |-> TRUE]
    /\ max_retries = DefaultMaxRetries
    /\ Fresh
    /\ result \in ParseBodies
    /\ raw_content = << >>
    /\ char_budget = CharBudget
    /\ formatted_text = << >>

\* Lines 189-224 of _make_request for the decoded body result.
parse_response ==
    /\ pc = "parse"
    /\ image_urls' = ExtractImages(result)
    /\ pc' = "parsed"
    /\ UNCHANGED << exit_code, now, env, max_retries, retries, requests,
                    sleeps, raised, crypto_summary, next_url,
                    downloaded_images, temp_files, scratch, created, sent,
                    success, downloads, pure_vars >>

NextParse == parse_response

SpecParse == InitParse /\ [][NextParse]_vars

(* ------------- format_crypto_summary on characters (250-302) ---------- *)

\* The characters a content is made of: a letter, the space, the period,
\* the line break and the two markdown markers.
Chars == {"a", " ", ".", "\n", "*"}

Markers == {"*", "#"}

\* str.strip(), str.split(sep) and sep.join(parts) on sequences of characters
RECURSIVE LStrip(_)
LStrip(t) ==
    IF t # << >> /\ Head(t) = " " THEN LStrip(Tail(t)) ELSE t

RECURSIVE RStrip(_)
RStrip(t) ==
    IF t # << >> /\ t[Len(t)] = " "
    THEN RStrip(SubSeq(t, 1, Len(t) - 1)) ELSE t

Strip(t) == RStrip(LStrip(t))

RECURSIVE Split(_, _)
Split(t, sep) ==
    IF \A i \in DOMAIN t : t[i] # sep
    THEN << t >>
    ELSE LET i == CHOOSE k \in DOMAIN t :
                      t[k] = sep /\ \A j \in 1..(k - 1) : t[j] # sep
         IN  << SubSeq(t, 1, i - 1) >> \o Split(SubSeq(t, i + 1, Len(t)), sep)

RECURSIVE Join(_, _)
Join(parts, sep) ==
    IF parts = << >> THEN << >>
    ELSE IF Len(parts) = 1 THEN parts[1]
    ELSE parts[1] \o << sep >> \o Join(Tail(parts), sep)

\* len(text.replace(' ', ''))
NoSpaceLen(t) ==
    LET NotSpace(c) == c # " " IN Len(SelectSeq(t, NotSpace))

\* Lines 254-259: the lines are stripped, the blank ones dropped, the others
\* joined by one space, and then the markdown markers are removed.
CleanText(raw) ==
    LET lines == Split(raw, "\n")
        stripped == [i \in DOMAIN lines |-> Strip(lines[i])]
        NotBlank(line) == line # << >>
        NotMarker(c) == c \notin Markers
    IN  SelectSeq(Join(SelectSeq(stripped, NotBlank), " "), NotMarker)

\* Lines 277-282: characters are taken from the text until the taken ones
\* have available characters other than spaces.
RECURSIVE TakeOneMore(_, _, _)
TakeOneMore(temp_content, rest, available) ==
    IF rest = << >> \/ NoSpaceLen(temp_content) > available
    THEN temp_content
    ELSE TakeOneMore(Append(temp_content, Head(rest)), Tail(rest), available)

RECURSIVE Take(_, _, _)
Take(temp_content, rest, available) ==
    IF rest = << >> \/ NoSpaceLen(temp_content) >= available
    THEN temp_content
    ELSE Take(Append(temp_content, Head(rest)), Tail(rest), available)

TruncationWindowOneMore(text, available) == TakeOneMore(<< >>, text, available)

TruncationWindow(text, available) == Take(<< >>, text, available)

\* Lines 285-288: with a period in the chunk, the last of the pieces between
\* periods is dropped and the others are joined again, with a period at the
\* end.
DropPartialSentenceNoPeriod(chunk) ==
    LET sentences == Split(chunk, ".")
    IN  IF Len(sentences) > 1
        THEN Join(SubSeq(sentences, 1, Len(sentences) - 1), ".")
        ELSE chunk

DropPartialSentence(chunk) ==
    LET sentences == Split(chunk, ".")
    IN  IF Len(sentences) > 1
        THEN Join(SubSeq(sentences, 1, Len(sentences) - 1), ".") \o << "." >>
        ELSE chunk

\* available_chars for a budget, and lines 254-290: the body that goes
\* between the header and the hashtags.
AvailableFor(budget, t) == budget - HeaderNoSpaces(t) - HashtagsNoSpaces

FormatBody(raw, available) ==
    LET text == CleanText(raw)
    IN  IF NoSpaceLen(text) > available
        THEN Strip(DropPartialSentence(TruncationWindow(text, available)))
        ELSE text

\* Contents of at most MaxTextLen characters, formatted to a budget that
\* leaves 1 to MaxAvailable characters for the body.
InitFormat ==
    /\ pc = "format"
    /\ now \in [weekday : {0}, month_len : MonthLens]
    /\ env = [PERPLEXITY_API_KEY |-> TRUE, TELEGRAM_BOT_TOKEN |-> TRUE,
              TELEGRAM_CHANNEL_ID |-> TRUE]
    /\ max_retries = DefaultMaxRetries
    /\ Fresh
    /\ result = NoBody
    /\ raw_content \in UNION { [1..n -> Chars] : n \in 0..MaxTextLen }
    /\ \E a \in 1..MaxAvailable :
          char_budget = HeaderNoSpaces(now) + HashtagsNoSpaces + a
    /\ formatted_text = << >>

\* format_crypto_summary(raw_content): the body, and the length of
\* header + body + hashtags.
format_summary ==
    /\ pc = "format"
    /\ formatted_text' = FormatBody(raw_content, AvailableFor(char_budget, now))
    /\ crypto_summary' = HeaderLen(now) + Len(formatted_text') + HashtagsLen
    /\ pc' = "formatted"
    /\ UNCHANGED << exit_code, now, env, max_retries, retries, requests,
                    sleeps, raised, image_urls, next_url, downloaded_images,
                    temp_files, scratch, created, sent, success, downloads,
                    result, raw_content, char_budget >>

NextFormat == format_summary

SpecFormat == InitFormat /\ [][NextFormat]_vars

(* ------------------------------ claims -------------------------------- *)

Statuses == [i \in DOMAIN requests |-> requests[i].status]

\* main() is past its send
Published == pc \in {"finally", "done"} /\ crypto_summary # 0

\* C1: when the API answers the request with HTTP 401, generate_with_retry
\* fails at once: one request in the whole call, no sleep, and the failure
\* raised to the caller.
C1_Http401FailsImmediately ==
    (requests # << >> /\ requests[1].status = "http401")
        => /\ Len(requests) = 1
           /\ sleeps = << >>
           /\ raised # "none"

\* C2: when a 2xx answer lacks choices[0].message.content or does not
\* decode, the failure is not retried: one request, then the exception.
C2_MalformedResponseNotRetried ==
    (requests # << >> /\ requests[1].status = "malformed")
        => /\ Len(requests) = 1
           /\ sleeps = << >>
           /\ raised # "none"

\* C3: the sleep that follows a 429 on attempt k (from 0) is 2^k seconds plus
\* a jitter of at most one second; the sleep that follows a timeout, a 5xx or
\* a network error is one second.
C3_RateLimitBackoffIsExponential ==
    \A i \in DOMAIN sleeps :
        /\ requests[i].status = "http429"
              => /\ (2 ^ (i - 1)) * TicksPerSecond <= sleeps[i]
                 /\ sleeps[i] <= (2 ^ (i - 1) + 1) * TicksPerSecond
        /\ requests[i].status \in {"timeout", "http5xx", "neterr"}
              => sleeps[i] = TicksPerSecond

\* C4: with max_retries = 3 and an endpoint that answers 429, 429 and then
\* 200 with a well-formed body, a third request is made after two sleeps,
\* the second not shorter than the first, and the call returns what the
\* third answer parses to.
C4_SucceedsOnThirdAttempt ==
    (max_retries = 3 /\ Len(requests) >= 2
       /\ requests[1].status = "http429" /\ requests[2].status = "http429")
        => /\ Len(requests) <= 3
           /\ Len(sleeps) = 2
           /\ sleeps[1] <= sleeps[2]
           /\ Len(requests) = 2 => (pc = "fetch" /\ raised = "none")
           /\ (Len(requests) = 3 /\ requests[3].status = "ok")
                 => /\ raised = "none"
                    /\ pc \in {"download", "publish"}
                    /\ image_urls =
                          [i \in DOMAIN requests[3].body.images |->
                              requests[3].body.images[i].url]
                            \o [i \in DOMAIN requests[3].body.provider_images |->
                                  requests[3].body.provider_images[i].url]
                    /\ crypto_summary =
                          format_crypto_summary(requests[3].body.content, now)

C4_Witness ==
    /\ max_retries = 3
    /\ Statuses = << "http429", "http429", "ok" >>
    /\ Len(sleeps) = 2
    /\ pc \in {"download", "publish"}

\* C5: generate_with_retry makes at most max_retries requests and has ended
\* once it has made that many; when the last allowed request fails, that
\* failure is raised, with no sleep after it.
C5_AtMostMaxRetriesRequests ==
    /\ Len(requests) <= max_retries
    /\ Len(requests) = max_retries => pc # "fetch"
    /\ pc = "fetch" => raised = "none"
    /\ (Len(requests) = max_retries /\ requests[max_retries].status # "ok")
          => /\ raised = ExceptionText(requests[max_retries].status)
             /\ Len(sleeps) = max_retries - 1

C5_Witness ==
    /\ max_retries >= 2
    /\ Len(requests) = max_retries
    /\ requests[max_retries].status = "http429"
    /\ raised = RateLimitText
    /\ Len(sleeps) = max_retries - 1

\* C6: when main() has ended, no scratch file that download_image created
\* is left, whether its download completed or not.
C6_EveryScratchFileRemoved ==
    pc = "done" => created \cap scratch = {}

\* C7 as stated: with two or more downloaded images the message goes out as
\* text only, by sendMessage and with no sendPhoto.
C7_SeveralImagesSentAsText ==
    (Published /\ Len(downloaded_images) >= 2)
        => /\ \A i \in DOMAIN sent : sent[i].method # "sendPhoto"
           /\ \E i \in DOMAIN sent : sent[i].method = "sendMessage"

\* C7 as amended: with two or more downloaded images the run makes one
\* sendPhoto call, with the first downloaded image and the whole formatted
\* message as caption, and no sendMessage call.
C7_SeveralImagesSendFirstPhoto ==
    (Published /\ Len(downloaded_images) >= 2)
        => sent = << WholeMessage("sendPhoto", downloaded_images[1],
                                  crypto_summary) >>

C7_Witness ==
    /\ pc = "done"
    /\ Len(downloaded_images) >= 2
    /\ Len(sent) = 1
    /\ sent[1].method = "sendPhoto"

\* C8: with exactly one downloaded image the run makes one sendPhoto call,
\* with that image and the formatted message as caption, and no sendMessage
\* call; with none it makes one sendMessage call with the formatted message
\* and no sendPhoto call.
C8_OneImagePhotoNoImageText ==
    /\ (Published /\ Len(downloaded_images) = 1)
          => sent = << [method |-> "sendPhoto", photo |-> downloaded_images[1],
                        from |-> 1, length |-> crypto_summary] >>
    /\ (Published /\ Len(downloaded_images) = 0)
          => sent = << [method |-> "sendMessage", photo |-> 0,
                        from |-> 1, length |-> crypto_summary] >>
    /\ ~Published => sent = << >>

C8_Witness ==
    /\ pc = "done"
    /\ exit_code = 0
    /\ Len(downloaded_images) = 1
    /\ Len(image_urls) >= 2
    /\ Len(sent) = 1
    /\ sent[1].method = "sendPhoto"

\* C9: the caption of every sendPhoto call has at most 1024 characters.
C9_CaptionAtMost1024 ==
    \A i \in DOMAIN sent :
        sent[i].method = "sendPhoto" => sent[i].length <= 1024

\* C10: no sendMessage call carries more than 4000 characters, and a
\* message of more than 4000 characters published as text goes out in
\* several calls whose texts, in order, are the consecutive pieces of the
\* message.
C10_LongTextSentInParts ==
    /\ \A i \in DOMAIN sent :
          sent[i].method = "sendMessage" => sent[i].length <= 4000
    /\ (Published /\ Len(downloaded_images) = 0 /\ crypto_summary > 4000)
          => /\ Len(sent) >= 2
             /\ sent[1].from = 1
             /\ \A i \in 1..(Len(sent) - 1) :
                   sent[i + 1].from = sent[i].from + sent[i].length
             /\ sent[Len(sent)].from + sent[Len(sent)].length
                   = crypto_summary + 1


\* the URLs that a list of items carries, whatever the keys
UrlsOf(items) == [i \in DOMAIN items |-> items[i].url]

\* at most one of the three places of the body has images
InOneLocation(body) ==
    Cardinality({ l \in {1, 2, 3} :
        CASE l = 1 -> body.images # << >>
          [] l = 2 -> body.choice_images # << >>
          [] l = 3 -> body.provider_images # << >> }) <= 1

\* C11: a body that carries the list L of image URLs in one place only, be
\* it the top-level list, the list of the first choice or the list of the
\* provider metadata, parses to the image list that the body with L at the
\* top level parses to.
C11_SameImagesFromEveryLocation ==
    (pc = "parsed" /\ InOneLocation(result))
        => image_urls =
              ExtractImages([NoBody EXCEPT !.images =
                  BareUrls(UrlsOf(result.images) \o UrlsOf(result.choice_images)
                              \o UrlsOf(result.provider_images))])

RECURSIVE FirstSeen(_)
FirstSeen(urls) ==
    IF urls = << >> THEN << >>
    ELSE LET front == FirstSeen(SubSeq(urls, 1, Len(urls) - 1))
             last  == urls[Len(urls)]
         IN  IF \E i \in DOMAIN front : front[i] = last
             THEN front ELSE Append(front, last)

\* C12: the parsed image list has no URL twice, and is the URLs of the
\* top-level list followed by those of the provider-metadata list, each URL
\* at its first occurrence only.
C12_ImagesWithoutDuplicates ==
    pc = "parsed"
        => /\ \A i, j \in DOMAIN image_urls :
                 image_urls[i] = image_urls[j] => i = j
           /\ image_urls = FirstSeen(UrlsOf(result.images)
                                       \o UrlsOf(result.provider_images))


\* one of the three secrets is missing, or empty once stripped
SecretMissing ==
    ~env.PERPLEXITY_API_KEY \/ ~env.TELEGRAM_BOT_TOKEN
        \/ ~env.TELEGRAM_CHANNEL_ID

\* no request to the API, no image download and no channel send was made
NoNetworkCall == requests = << >> /\ downloads = << >> /\ sent = << >>

\* C13: main() ends with status 0 exactly when the day is a Saturday or a
\* Sunday or its one send reported success, and with another status when a
\* secret fails the validation, when the API request has failed for good and
\* when the send has failed.
C13_ExitStatusTellsOutcome ==
    pc = "done"
        => /\ exit_code \in {0, 1}
           /\ exit_code = 0 <=> \/ now.weekday \in {5, 6}
                                \/ (Len(sent) = 1 /\ success)
           /\ (now.weekday \notin {5, 6} /\ SecretMissing) => exit_code # 0
           /\ raised # "none" => exit_code # 0
           /\ (sent # << >> /\ ~success) => exit_code # 0

C13_Witness ==
    /\ pc = "done"
    /\ now.weekday = 2
    /\ Len(sent) = 1
    /\ ~success
    /\ exit_code = 1

\* C14 as stated: with one of the three secrets missing or empty, the run
\* ends with a status other than 0 and makes no network call.
C14_MissingSecretFailsRun ==
    SecretMissing
        => /\ NoNetworkCall
           /\ pc = "done" => exit_code # 0

\* C14 as amended: on a day from Monday to Friday, with one of the three
\* secrets missing or empty, the run ends after the validation with a status
\* other than 0 and makes no network call.
C14_MissingSecretFailsWeekdayRun ==
    (now.weekday \notin {5, 6} /\ SecretMissing)
        => /\ NoNetworkCall
           /\ pc \in {"is_weekday", "validate", "done"}
           /\ pc = "done" => exit_code = 1

C14_Witness ==
    /\ pc = "done"
    /\ now.weekday = 0
    /\ env.PERPLEXITY_API_KEY /\ env.TELEGRAM_BOT_TOKEN
    /\ ~env.TELEGRAM_CHANNEL_ID
    /\ exit_code = 1

\* C15: on a Saturday or a Sunday the run makes no network call, creates no
\* scratch file and ends with status 0 without validating the secrets,
\* whatever the environment holds.
C15_WeekendRunDoesNothing ==
    now.weekday \in {5, 6}
        => /\ NoNetworkCall
           /\ created = {} /\ scratch = {}
           /\ pc \in {"is_weekday", "done"}
           /\ exit_code \in {-1, 0}
           /\ pc = "done" => exit_code = 0

C15_Witness ==
    /\ pc = "done"
    /\ now.weekday = 5
    /\ ~env.PERPLEXITY_API_KEY /\ ~env.TELEGRAM_BOT_TOKEN
    /\ ~env.TELEGRAM_CHANNEL_ID
    /\ exit_code = 0

\* C16: when get_crypto_news_with_images raises, the run sends nothing to
\* the channel, downloads no image and ends with a status other than 0.
C16_FailedFetchPublishesNothing ==
    raised # "none"
        => /\ sent = << >>
           /\ downloads = << >>
           /\ created = {}
           /\ pc \in {"finally", "done"}
           /\ exit_code # 0
           /\ pc = "done" => exit_code = 1

C16_Witness ==
    /\ pc = "done"
    /\ raised = InvalidFormatText
    /\ Len(requests) = 3
    /\ exit_code = 1


\* the cleaned text of the content, and what is left for the body
Cleaned == CleanText(raw_content)

Available == char_budget - HeaderNoSpaces(now) - HashtagsNoSpaces

SpaceFree(t) == Cardinality({ i \in DOMAIN t : t[i] # " " })

Truncated == pc = "formatted" /\ SpaceFree(Cleaned) > Available

\* the shortest prefix of the cleaned text with Available characters other
\* than spaces: the truncation window
WindowEnd ==
    CHOOSE n \in 0..Len(Cleaned) :
        /\ SpaceFree(SubSeq(Cleaned, 1, n)) >= Available
        /\ \A m \in 0..(n - 1) : SpaceFree(SubSeq(Cleaned, 1, m)) < Available

PeriodsInWindow == { i \in 1..WindowEnd : Cleaned[i] = "." }

LastPeriod == CHOOSE i \in PeriodsInWindow : \A j \in PeriodsInWindow : j <= i

\* C17: when the cleaned text has more characters other than spaces than
\* the budget leaves for the body, the body has at most that many and the
\* whole message at most the budget; otherwise the body is the cleaned text.
C17_BodyWithinBudget ==
    pc = "formatted"
        => /\ SpaceFree(Cleaned) > Available
                => /\ SpaceFree(formatted_text) <= Available
                   /\ HeaderNoSpaces(now) + SpaceFree(formatted_text)
                          + HashtagsNoSpaces <= char_budget
           /\ SpaceFree(Cleaned) <= Available => formatted_text = Cleaned

C17_Witness ==
    /\ pc = "formatted"
    /\ SpaceFree(Cleaned) > Available
    /\ SpaceFree(formatted_text) = Available
    /\ \E i \in DOMAIN formatted_text : formatted_text[i] = " "

\* C18 as stated: when the text is truncated and the truncation window has a
\* period, the body ends with a period and is the prefix of the cleaned text
\* up to and including the last period of the window.
C18_BodyIsPrefixToLastPeriod ==
    (Truncated /\ PeriodsInWindow # {})
        => /\ formatted_text # << >>
           /\ formatted_text[Len(formatted_text)] = "."
           /\ formatted_text = SubSeq(Cleaned, 1, LastPeriod)

\* the first character of the cleaned text that is not a space, if any
FirstNonSpace ==
    CHOOSE i \in 1..(Len(Cleaned) + 1) :
        /\ i <= Len(Cleaned) => Cleaned[i] # " "
        /\ \A j \in 1..(i - 1) : Cleaned[j] = " "

\* C18 as amended: when the text is truncated and the truncation window has
\* a period, the body ends with a period and is the cleaned text from its
\* first character that is not a space up to and including the last period
\* of the window.
C18_BodyIsStrippedPrefixToLastPeriod ==
    (Truncated /\ PeriodsInWindow # {})
        => /\ formatted_text # << >>
           /\ formatted_text[Len(formatted_text)] = "."
           /\ formatted_text = SubSeq(Cleaned, FirstNonSpace, LastPeriod)
           /\ Len(formatted_text) <= WindowEnd

C18_Witness ==
    /\ Truncated
    /\ PeriodsInWindow # {}
    /\ LastPeriod < WindowEnd
    /\ FirstNonSpace > 1
    /\ formatted_text # << >>


\* the positions of the downloads that completed, in order
Completed ==
    LET Done(i) == downloads[i].outcome = "complete"
    IN  SelectSeq([i \in DOMAIN downloads |-> i], Done)

\* C19: downloads are attempted for the first 3 URLs of the parsed list only,
\* in order; a download that fails is left out of the downloaded list and
\* stops neither the others nor the run, which goes on to its one send, a
\* text when every download failed.
C19_DownloadsFirstThreeEachOnItsOwn ==
    /\ Len(downloads) <= 3
    /\ \A i \in DOMAIN downloads :
          i <= Len(image_urls) /\ downloads[i].url = image_urls[i]
    /\ downloaded_images = Completed
    /\ downloads # << >> => raised = "none"
    /\ pc = "download"
          => (ENABLED download_image /\ Len(downloads) < 3
                 /\ Len(downloads) < Len(image_urls))
    /\ pc = "publish"
          => ENABLED (send_photo_with_caption \/ send_message)
    /\ (pc \in {"publish", "finally", "done"} /\ crypto_summary # 0)
          => \/ Len(downloads) = 3 /\ Len(image_urls) >= 3
             \/ Len(downloads) = Len(image_urls) /\ Len(image_urls) < 3
    /\ (pc \in {"finally", "done"} /\ crypto_summary # 0)
          => /\ Len(sent) = 1
             /\ Completed = << >> => sent[1].method = "sendMessage"

C19_Witness ==
    /\ pc = "done"
    /\ Len(image_urls) = 4
    /\ Len(downloads) = 3
    /\ \A i \in DOMAIN downloads : downloads[i].outcome # "complete"
    /\ downloads[1].outcome # downloads[2].outcome
    /\ Len(sent) = 1
    /\ sent[1].method = "sendMessage"


\* the stages of a run, in their order
Rank(stage) ==
    CASE stage = "is_weekday" -> 0
      [] stage = "validate"   -> 1
      [] stage = "fetch"      -> 2
      [] stage = "download"   -> 3
      [] stage = "publish"    -> 4
      [] stage = "finally"    -> 5
      [] stage = "done"       -> 6

ValidWeekdayRun ==
    /\ now.weekday \notin {5, 6}
    /\ env.PERPLEXITY_API_KEY /\ env.TELEGRAM_BOT_TOKEN
    /\ env.TELEGRAM_CHANNEL_ID

\* what holds of the network calls at every moment of such a run
StagesInOrder ==
    ValidWeekdayRun
        => /\ requests # << >> => Rank(pc) >= 2
           /\ downloads # << >>
                 => /\ Rank(pc) >= 3
                    /\ crypto_summary # 0
                    /\ requests[Len(requests)].status = "ok"
           /\ sent # << >>
                 => /\ Rank(pc) >= 5
                    /\ crypto_summary # 0
                    /\ Len(downloads) = IF Len(image_urls) < 3
                                        THEN Len(image_urls) ELSE 3
           /\ pc = "done" => exit_code \in {0, 1}

\* what holds of every step of such a run
StageStep ==
    ValidWeekdayRun
        => /\ Rank(pc') >= Rank(pc)
           /\ requests' # requests => pc = "fetch"
           /\ downloads' # downloads => pc = "download"
           /\ sent' # sent => pc = "publish"
           /\ pc = "publish" => pc' = "finally"
           /\ (pc' = "done" /\ pc # "done")
                 => /\ pc = "finally"
                    /\ scratch' = scratch \ { temp_files[i] : i \in DOMAIN temp_files }
                    /\ UNCHANGED << requests, downloads, sent >>

\* C20: a weekday run with valid credentials goes through validation, the
\* content fetch, the image downloads, the send and the cleanup in this
\* order: no download before the fetch has succeeded, no send before the
\* downloads are over, and the cleanup after the last network call and
\* before the end of the run, whether the run succeeded or failed.
C20_StagesInFixedOrder == []StagesInOrder /\ [][StageStep]_vars

C20_Witness ==
    /\ pc = "done"
    /\ ValidWeekdayRun
    /\ Len(requests) = 2
    /\ Len(downloads) = 3
    /\ Len(sent) = 1
    /\ ~success
    /\ exit_code = 1


\* the positions in image_urls whose download completed
CompletedPositions ==
    { i \in DOMAIN downloads : downloads[i].outcome = "complete" }

\* C21: a run makes at most one channel send; with at least one downloaded
\* image it is a sendPhoto of the first image, in URL order, whose download
\* completed; when that sendPhoto fails no sendMessage follows and the run
\* ends with a status other than 0.
C21_OneSendNoFallback ==
    /\ Len(sent) <= 1
    /\ (sent # << >> /\ CompletedPositions # {})
          => /\ sent[1].method = "sendPhoto"
             /\ sent[1].photo \in CompletedPositions
             /\ \A i \in CompletedPositions : sent[1].photo <= i
    /\ (sent # << >> /\ sent[1].method = "sendPhoto" /\ ~success)
          => /\ pc \in {"finally", "done"}
             /\ \A i \in DOMAIN sent : sent[i].method # "sendMessage"
             /\ exit_code # 0
             /\ pc = "done" => exit_code = 1

C21_Witness ==
    /\ pc = "done"
    /\ Len(downloads) = 3
    /\ downloads[1].outcome = "partial"
    /\ downloads[2].outcome = "complete"
    /\ downloads[3].outcome = "complete"
    /\ sent = << [method |-> "sendPhoto", photo |-> 2, from |-> 1,
                  length |-> crypto_summary] >>
    /\ ~success
    /\ exit_code = 1

=============================================================================
